---------------------------- MODULE Spec2Model ----------------------------
(***************************************************************************)
(* A model of pyrastr (src/src/pyrastr/pyrastr.py): the Python object      *)
(* model over the Astra.Rastr automation engine.                           *)
(*                                                                         *)
(* The wrapper classes (Rastr, RastrTable, RastrColumn) are translated     *)
(* method by method.  The engine behind them is an external component; it  *)
(* is modelled by the Engine* operators, as the wrapper's docstrings       *)
(* describe the calls it forwards to.                                      *)
(*                                                                         *)
(* Python values are tagged records, so that None, an int and a str can be *)
(* compared with each other.  A Python str that the code iterates over is  *)
(* a sequence of one-character strings.                                    *)
(***************************************************************************)
EXTENDS Integers, Sequences, FiniteSets, TLC

VARIABLES
    debug,      \* Python's __debug__: FALSE when run with -O (asserts removed)
    calc_last,  \* the last call of a calculation entry point and its outcome
    rows,       \* the engine's table: a sequence of rows, row id r at rows[r + 1]
    col_last,   \* the last call of a cell accessor and its outcome
    props,      \* the engine's column properties: props[c][index]
    prop_last,  \* the last call of a property accessor and its outcome
    prop_writes, \* how many property writes have reached the engine
    sel,        \* the engine's selection string of the table
    tbl_last,   \* the last call of a table method and its outcome
    it_pc,      \* the iterRows generator: "none", "created", "suspended", "done"
    it_row,     \* the generator's local row_id
    it_out,     \* the rows the generator has yielded: their ids and tags
    it_clean,   \* no row edit has been made since the generator was created
    edits,      \* how many row insertions and deletions have been made
    load_last,  \* the last call of Rastr.load or Rastr.loadOldFile and its outcome
    tables,     \* the engine's collection of tables: their names, by position
    look_last,  \* the last lookup by name or index and its outcome
    file,       \* the file at the path the table is written to and read from
    it_cut,     \* where the iterRows generator stood when the last row edit was made
    ri_made,    \* a RowIterator has been made by iterating the table object
    ri_idx,     \* the RowIterator's idx
    ri_out      \* how the calls of next() on the RowIterator ended, in order

calcVars == <<calc_last>>
rastrVars == <<load_last, tables, look_last, file>>
rowIterVars == <<ri_made, ri_idx, ri_out>>
cellVars == <<col_last>>
propVars == <<props, prop_last, prop_writes>>
selVars == <<sel, tbl_last>>
iterVars == <<it_pc, it_row, it_out, it_clean, edits>>
vars == <<debug, calc_last, rows, col_last, props, prop_last, prop_writes, sel, tbl_last,
          it_pc, it_row, it_out, it_clean, edits, load_last, tables, look_last, file,
          it_cut, ri_made, ri_idx, ri_out>>

-----------------------------------------------------------------------------
(* Bounds of the model *)

\* longest calculation-parameter string tried
MaxParLen == 2
\* the engine's calculation routines report an integer in 0..MaxEngineCode
MaxEngineCode == 3
\* most rows of a table
MaxRows == 3
\* most property writes that reach the engine in one run
MaxPropWrites == 2
\* most row insertions and deletions in one run
MaxEdits == 1

\* how often one RowIterator is driven to its end
MaxExhaustions == 2
\* most records of a CSV or CDU file
MaxFileRecords == 1

-----------------------------------------------------------------------------
(* Python values *)

PyNone == [t |-> "none"]
PyStr(s) == [t |-> "str", s |-> s]
PyInt(n) == [t |-> "int", n |-> n]
PyFloat(n) == [t |-> "float", n |-> n]
PyBool(b) == [t |-> "bool", b |-> b]

\* how a call ended: no exception, or the class of the exception raised
NoError == "none"

\* The outcome of a call: the exception raised (or NoError), the engine
\* routines invoked with their arguments, and the value returned.
Raise(kind, calls) == [raised |-> kind, engine |-> calls, ret |-> PyNone]
Return(value, calls) == [raised |-> NoError, engine |-> calls, ret |-> value]

\* what the caller holds when no call is outstanding
NoCall == [entry |-> "", parameters |-> <<>>, result |-> 0, out |-> Return(PyNone, <<>>)]
NoCellCall ==
    [op |-> "", item |-> PyNone, col |-> 0, row |-> 0, value |-> PyNone,
     value_type |-> "", out |-> Return(PyNone, <<>>), before |-> <<>>]
NoPropCall ==
    [op |-> "", col |-> 0, property_type |-> "", value |-> PyNone,
     out |-> Return(PyNone, <<>>), before |-> <<>>]

\* A selection string: <<>> is the empty string, <<name, v>> the text
\* name=v, which the rows whose cell in column name holds v satisfy.
EmptySel == <<>>
NoTableCall ==
    [op |-> "", arg |-> PyNone, out |-> Return(PyNone, <<>>),
     before |-> <<>>, before_sel |-> EmptySel]

\* a load call: the arguments, and the outcome
NoLoadCall ==
    [op |-> "", code |-> "", template |-> PyNone, use_template |-> TRUE,
     out |-> Return(PyNone, <<>>), before |-> <<>>]

\* the tables of the workspace after construction
TablesAtStart == <<"node", "vetv">>

\* no file at the path yet; a file is known by its dialect and the number
\* of records it holds
NoFile == [dialect |-> "none", records |-> 0]

\* a lookup by name or index: the argument, and the outcome
NoLookCall == [op |-> "", item |-> PyNone, out |-> Return(PyNone, <<>>), before |-> <<>>]

-----------------------------------------------------------------------------
(* Rastr: calculation entry points *)

\* self._pars (the empty string is an element of the list, never a letter)
pars == <<"", "p", "z", "c", "r", "i">>

\* self._calc_codes
calc_codes == [c \in {0, 1, 2} |->
                 CASE c = 0 -> "AST_OK" [] c = 1 -> "AST_NB" [] c = 2 -> "AST_REPT"]

\* dict.get(key): the value, or None for a key the dict does not hold
calc_codes_get(result) ==
    IF result \in DOMAIN calc_codes THEN PyStr(calc_codes[result]) ELSE PyNone

\* `letter not in self._pars`
NotInPars(letter) == \A k \in DOMAIN pars : pars[k] # letter

\* for letter in parameters: if letter not in self._pars: raise ...
\* TRUE when the loop raises
ParsLoopRaises(parameters) ==
    \E k \in DOMAIN parameters : NotInPars(parameters[k])

\* the body shared by rgm, opf, opt, ekv, kdd, stepUt and ut: validate,
\* call the engine routine, map its result through _calc_codes
ValidatedCalc(routine, parameters, result) ==
    IF ParsLoopRaises(parameters)
    THEN Raise("UnexpectedResult", <<>>)
    ELSE Return(calc_codes_get(result), <<[routine |-> routine, arg |-> parameters]>>)

rgm(parameters, result) == ValidatedCalc("rgm", parameters, result)
ssm(parameters, result) == rgm(parameters, result)
opf(parameters, result) == ValidatedCalc("opf", parameters, result)
opt(parameters, result) == ValidatedCalc("opt", parameters, result)
ekv(parameters, result) == ValidatedCalc("ekv", parameters, result)
kdd(parameters, result) == ValidatedCalc("kdd", parameters, result)
stepUt(parameters, result) == ValidatedCalc("step_ut", parameters, result)
ut(parameters, result) == ValidatedCalc("ut_utr", parameters, result)
weight(parameters, result) == ut(parameters, result)

\* jakobi forwards its argument and returns the engine's value as it is
jakobi(parameters, result) ==
    Return(PyInt(result), <<[routine |-> "jakobi", arg |-> parameters]>>)

\* the characters parameter strings are built from here: the five letters
\* of the alphabet and three that are outside it
Letters == {"p", "z", "c", "r", "i", "x", "P", " "}

RECURSIVE StringsUpTo(_)
StringsUpTo(n) ==
    IF n = 0 THEN {<<>>}
    ELSE LET shorter == StringsUpTo(n - 1)
         IN shorter \cup {Append(s, c) : s \in {x \in shorter : Len(x) = n - 1}, c \in Letters}

ParStrings == StringsUpTo(MaxParLen)
EngineResults == 0..MaxEngineCode

\* Every operation is a blocking call (spec 5): the caller makes a call when
\* it holds no outcome, and takes the outcome before it makes the next one.
CalcCall(entry, parameters, result, out) ==
    [entry |-> entry, parameters |-> parameters, result |-> result, out |-> out]

Rgm ==
    \E p \in ParStrings, res \in EngineResults :
        /\ calc_last = NoCall
        /\ calc_last' = CalcCall("rgm", p, res, rgm(p, res))
        /\ UNCHANGED <<debug, it_cut, rowIterVars, rows, rastrVars, cellVars, propVars, selVars, iterVars>>
Ssm ==
    \E p \in ParStrings, res \in EngineResults :
        /\ calc_last = NoCall
        /\ calc_last' = CalcCall("ssm", p, res, ssm(p, res))
        /\ UNCHANGED <<debug, it_cut, rowIterVars, rows, rastrVars, cellVars, propVars, selVars, iterVars>>
Opf ==
    \E p \in ParStrings, res \in EngineResults :
        /\ calc_last = NoCall
        /\ calc_last' = CalcCall("opf", p, res, opf(p, res))
        /\ UNCHANGED <<debug, it_cut, rowIterVars, rows, rastrVars, cellVars, propVars, selVars, iterVars>>
Opt ==
    \E p \in ParStrings, res \in EngineResults :
        /\ calc_last = NoCall
        /\ calc_last' = CalcCall("opt", p, res, opt(p, res))
        /\ UNCHANGED <<debug, it_cut, rowIterVars, rows, rastrVars, cellVars, propVars, selVars, iterVars>>
Ekv ==
    \E p \in ParStrings, res \in EngineResults :
        /\ calc_last = NoCall
        /\ calc_last' = CalcCall("ekv", p, res, ekv(p, res))
        /\ UNCHANGED <<debug, it_cut, rowIterVars, rows, rastrVars, cellVars, propVars, selVars, iterVars>>
Kdd ==
    \E p \in ParStrings, res \in EngineResults :
        /\ calc_last = NoCall
        /\ calc_last' = CalcCall("kdd", p, res, kdd(p, res))
        /\ UNCHANGED <<debug, it_cut, rowIterVars, rows, rastrVars, cellVars, propVars, selVars, iterVars>>
StepUt ==
    \E p \in ParStrings, res \in EngineResults :
        /\ calc_last = NoCall
        /\ calc_last' = CalcCall("stepUt", p, res, stepUt(p, res))
        /\ UNCHANGED <<debug, it_cut, rowIterVars, rows, rastrVars, cellVars, propVars, selVars, iterVars>>
Ut ==
    \E p \in ParStrings, res \in EngineResults :
        /\ calc_last = NoCall
        /\ calc_last' = CalcCall("ut", p, res, ut(p, res))
        /\ UNCHANGED <<debug, it_cut, rowIterVars, rows, rastrVars, cellVars, propVars, selVars, iterVars>>
Weight ==
    \E p \in ParStrings, res \in EngineResults :
        /\ calc_last = NoCall
        /\ calc_last' = CalcCall("weight", p, res, weight(p, res))
        /\ UNCHANGED <<debug, it_cut, rowIterVars, rows, rastrVars, cellVars, propVars, selVars, iterVars>>
Jakobi ==
    \E p \in ParStrings, res \in EngineResults :
        /\ calc_last = NoCall
        /\ calc_last' = CalcCall("jakobi", p, res, jakobi(p, res))
        /\ UNCHANGED <<debug, it_cut, rowIterVars, rows, rastrVars, cellVars, propVars, selVars, iterVars>>

InitCalc ==
    /\ debug \in BOOLEAN
    /\ calc_last = NoCall
    /\ rows = <<>>
    /\ col_last = NoCellCall
    /\ props = <<>>
    /\ prop_last = NoPropCall
    /\ prop_writes = 0
    /\ sel = EmptySel
    /\ tbl_last = NoTableCall
    /\ it_pc = "none" /\ it_row = PyNone /\ it_out = <<>> /\ it_clean = TRUE
    /\ edits = 0
    /\ load_last = NoLoadCall
    /\ tables = TablesAtStart
    /\ look_last = NoLookCall
    /\ file = NoFile
    /\ it_cut = "none"
    /\ ri_made = FALSE /\ ri_idx = -1 /\ ri_out = <<>>

\* the caller takes the outcome of the call
CalcReturned ==
    /\ calc_last # NoCall
    /\ calc_last' = NoCall
    /\ UNCHANGED <<debug, it_cut, rowIterVars, rows, rastrVars, cellVars, propVars, selVars, iterVars>>

NextCalc ==
    \/ Rgm \/ Ssm \/ Opf \/ Opt \/ Ekv \/ Kdd \/ StepUt \/ Ut \/ Weight
    \/ Jakobi \/ CalcReturned

SpecCalc == InitCalc /\ [][NextCalc]_vars

-----------------------------------------------------------------------------
(* Claims about the calculation entry points *)

InAlphabet(parameters) ==
    \A k \in DOMAIN parameters : parameters[k] \in {"p", "z", "c", "r", "i"}

ValidatedEntries == {"rgm", "ssm", "opf", "opt", "ekv", "kdd", "stepUt", "ut", "weight"}
CalcEntries == ValidatedEntries \cup {"jakobi"}

\* C1: for every calculation entry point taking a parameter string (jakobi
\* included), a string over {p, z, c, r, i} is forwarded to the engine with
\* no error, and a string with any other character raises an error without
\* the engine's routine being invoked.
C1_EveryEntryValidates ==
    calc_last.entry \in CalcEntries =>
        IF InAlphabet(calc_last.parameters)
        THEN /\ calc_last.out.raised = NoError
             /\ Len(calc_last.out.engine) = 1
             /\ calc_last.out.engine[1].arg = calc_last.parameters
        ELSE /\ calc_last.out.raised # NoError
             /\ calc_last.out.engine = <<>>

\* C2: every call of a validated entry point that reaches the engine returns
\* one of AST_OK, AST_NB, AST_REPT, whatever integer the engine reports.
C2_AlwaysAnOutcomeCode ==
    (calc_last.entry \in ValidatedEntries /\ calc_last.out.engine # <<>>) =>
        calc_last.out.ret \in {PyStr("AST_OK"), PyStr("AST_NB"), PyStr("AST_REPT")}

-----------------------------------------------------------------------------
(* The engine's table *)

\* the names of the table's columns, in the table's column order; the
\* engine's Cols.Item(index) counts from 0
ColNames == <<"a", "b">>
Cols == DOMAIN ColNames
\* the stored values cells hold here
Vals == {0, 1}

\* a row: its stored cell values (z), and a tag (uid) that stays with the
\* row when structural edits move it to another row id
RowsOfLen(n) ==
    {r \in [1..n -> [uid : 1..n, z : [Cols -> Vals]]] : \A k \in 1..n : r[k].uid = k}
AllTables == UNION {RowsOfLen(n) : n \in 0..MaxRows}

\* self._table.Size
EngineSize == Len(rows)
\* the row ids the engine accepts
EngineRowOk(row_id) == row_id \in 0..(EngineSize - 1)

\* Value codec of a column (spec 4.1).  The stored value is the unscaled
\* one; the scaled value is the stored value times the column's scale; the
\* scaled string is the text of the scaled value.  Text(n) stands for the
\* decimal text of n.
EngineScale(c) == c
Text(n) == [t |-> "str", digits |-> n]

EngineZ(c, row_id) == PyInt(rows[row_id + 1].z[c])
EngineZN(c, row_id) == PyInt(rows[row_id + 1].z[c] * EngineScale(c))
EngineZS(c, row_id) == Text(rows[row_id + 1].z[c] * EngineScale(c))

EngineSetZ(tbl, c, row_id, value) ==
    [tbl EXCEPT ![row_id + 1].z[c] = value.n]
EngineSetZN(tbl, c, row_id, value) ==
    [tbl EXCEPT ![row_id + 1].z[c] = value.n \div EngineScale(c)]
EngineSetZS(tbl, c, row_id, value) ==
    [tbl EXCEPT ![row_id + 1].z[c] = value.digits \div EngineScale(c)]

\* a call of a column routine: the routine, the column, the row id and the
\* value written (None for a read)
ColCall(routine, c, row_id, value) ==
    [routine |-> routine, col |-> c, row |-> row_id, arg |-> value]

\* the table after the engine has served the calls of one operation
RECURSIVE EngineApply(_, _)
EngineApply(tbl, calls) ==
    IF calls = <<>> THEN tbl
    ELSE LET call == Head(calls)
             done ==
                 IF ~ (call.row \in 0..(Len(tbl) - 1)) THEN tbl
                 ELSE CASE call.routine = "SetZ" -> EngineSetZ(tbl, call.col, call.row, call.arg)
                        [] call.routine = "SetZN" -> EngineSetZN(tbl, call.col, call.row, call.arg)
                        [] call.routine = "SetZS" -> EngineSetZS(tbl, call.col, call.row, call.arg)
                        [] OTHER -> tbl
         IN EngineApply(done, Tail(calls))

\* a write through the engine: a row id outside the table is the engine's
\* error, which the wrapper lets through
EngineWrite(routine, c, row_id, value) ==
    IF EngineRowOk(row_id)
    THEN Return(PyNone, <<ColCall(routine, c, row_id, value)>>)
    ELSE Raise("com_error", <<ColCall(routine, c, row_id, value)>>)

\* a read through the engine
EngineRead(routine, c, row_id, value) ==
    IF EngineRowOk(row_id)
    THEN Return(value, <<ColCall(routine, c, row_id, PyNone)>>)
    ELSE Raise("com_error", <<ColCall(routine, c, row_id, PyNone)>>)

-----------------------------------------------------------------------------
(* RastrColumn: cell values *)

\* self._value_types
value_types == <<"scaled", "not_scaled", "scaled_string">>

InValueTypes(value_type) == \E k \in DOMAIN value_types : value_types[k] = value_type

\* setValue with the scaled kind written through the unscaled accessor
setValue_UnscaledWrite(c, row_id, value, value_type) ==
    IF debug /\ ~ InValueTypes(value_type)
    THEN Raise("AssertionError", <<>>)
    ELSE CASE value_type = "scaled" -> EngineWrite("SetZ", c, row_id, value)
           [] value_type = "not_scaled" -> EngineWrite("SetZ", c, row_id, value)
           [] value_type = "scaled_string" -> EngineWrite("SetZS", c, row_id, value)
           [] OTHER -> Return(PyNone, <<>>)

\* RastrColumn.setValue: the assert is compiled away when __debug__ is
\* false, and a value_type that matches no case then falls out of the match
setValue(c, row_id, value, value_type) ==
    IF debug /\ ~ InValueTypes(value_type)
    THEN Raise("AssertionError", <<>>)
    ELSE CASE value_type = "scaled" -> EngineWrite("SetZN", c, row_id, value)
           [] value_type = "not_scaled" -> EngineWrite("SetZ", c, row_id, value)
           [] value_type = "scaled_string" -> EngineWrite("SetZS", c, row_id, value)
           [] OTHER -> Return(PyNone, <<>>)

\* RastrColumn.getValue
getValue(c, row_id, value_type) ==
    IF ~ InValueTypes(value_type)
    THEN Raise("Exception", <<>>)
    ELSE CASE value_type = "scaled" -> EngineRead("ZN", c, row_id, EngineZN(c, row_id))
           [] value_type = "not_scaled" -> EngineRead("Z", c, row_id, EngineZ(c, row_id))
           [] value_type = "scaled_string" -> EngineRead("ZS", c, row_id, EngineZS(c, row_id))
           [] OTHER -> Return(PyNone, <<>>)

\* RastrColumn.get and RastrColumn.set are the same functions
RastrColumn_get(c, row_id, value_type) == getValue(c, row_id, value_type)
RastrColumn_set(c, row_id, value, value_type) == setValue(c, row_id, value, value_type)

-----------------------------------------------------------------------------
(* RastrTable: column lookup and cell access by column *)

\* Cols.Item(key) of the engine: the column of that name, or at that
\* position counted from 0; 0 when there is none (the engine's error).
\* A Python bool reaches the engine as a COM boolean, whose number is -1
\* for True and 0 for False.
EngineItem(key) ==
    CASE key.t = "str" ->
            IF \E c \in Cols : ColNames[c] = key.s
            THEN CHOOSE c \in Cols : ColNames[c] = key.s
            ELSE 0
      [] key.t = "int" -> IF key.n + 1 \in Cols THEN key.n + 1 ELSE 0
      [] key.t = "bool" -> IF (~ key.b) /\ 1 \in Cols THEN 1 ELSE 0
      [] OTHER -> 0

\* the outcome of a lookup: the exception raised, the column found and
\* the call the engine's collection got
Found(key) ==
    LET c == EngineItem(key)
    IN [raised |-> IF c = 0 THEN "com_error" ELSE NoError, col |-> c,
        engine |-> <<[routine |-> "Item", arg |-> key]>>]

\* RastrColumns.getByName, RastrColumns.getByIndex
getByName(name) == Found(name)
getByIndex(index) == Found(index)

\* isinstance(item, str), isinstance(item, int)
IsInstanceStr(item) == item.t = "str"
IsInstanceInt(item) == item.t \in {"int", "bool"}

\* RastrTable.column
column(item) ==
    IF IsInstanceStr(item) THEN getByName(item)
    ELSE IF IsInstanceInt(item) THEN getByIndex(item)
    ELSE [raised |-> "UnexpectedResult", col |-> 0, engine |-> <<>>]

\* RastrTable.get
RastrTable_get(row_id, item, value_type) ==
    LET c == column(item)
    IN IF c.raised # NoError THEN Raise(c.raised, <<>>)
       ELSE RastrColumn_get(c.col, row_id, value_type)

\* RastrTable.set
RastrTable_set(row_id, item, value, value_type) ==
    LET c == column(item)
    IN IF c.raised # NoError THEN Raise(c.raised, <<>>)
       ELSE setValue(c.col, row_id, value, value_type)

-----------------------------------------------------------------------------
(* Cell access: the calls tried *)

\* value kinds passed: the three of _value_types and some that are not
KindsTried == {"scaled", "not_scaled", "scaled_string", "raw", "SCALED", ""}
\* row ids passed: those of the table, one below and one above
RowIdsTried == (-1)..MaxRows
\* columns asked for by name or position, and keys of another type
ItemsTried ==
    {PyStr(ColNames[c]) : c \in Cols} \cup {PyInt(c - 1) : c \in Cols}
        \cup {PyStr("zz"), PyInt(Len(ColNames)), PyNone, PyFloat(0)}

\* the values of a kind that a cell of column c holds exactly (what the
\* engine does with a value between two of them is its rounding)
ValuesOfKind(c, value_type) ==
    CASE value_type = "scaled" -> {PyInt(v * EngineScale(c)) : v \in Vals}
      [] value_type = "scaled_string" -> {Text(v * EngineScale(c)) : v \in Vals}
      [] OTHER -> {PyInt(v) : v \in Vals}

\* the call made last: the method, its arguments (item is the column key of
\* a table-level call), the column it resolved to, its outcome and the table
\* before it
CellCall(op, item, c, row_id, value, value_type, out) ==
    [op |-> op, item |-> item, col |-> c, row |-> row_id, value |-> value,
     value_type |-> value_type, out |-> out, before |-> rows]

SetValue ==
    \E c \in Cols, row_id \in RowIdsTried, value_type \in KindsTried :
        \E value \in ValuesOfKind(c, value_type) :
            LET call == CellCall("setValue", PyNone, c, row_id, value, value_type,
                     setValue(c, row_id, value, value_type))
            IN /\ col_last = NoCellCall
               /\ col_last' = call
               /\ rows' = EngineApply(rows, call.out.engine)
               /\ UNCHANGED <<debug, it_cut, rowIterVars, calcVars, rastrVars, propVars, selVars, iterVars>>

GetValue ==
    \E c \in Cols, row_id \in RowIdsTried, value_type \in KindsTried :
        LET call == CellCall("getValue", PyNone, c, row_id, PyNone, value_type,
                 getValue(c, row_id, value_type))
        IN /\ col_last = NoCellCall
           /\ col_last' = call
           /\ rows' = EngineApply(rows, call.out.engine)
           /\ UNCHANGED <<debug, it_cut, rowIterVars, calcVars, rastrVars, propVars, selVars, iterVars>>

TableSet ==
    \E item \in ItemsTried, row_id \in RowIdsTried, value_type \in KindsTried :
        \E value \in ValuesOfKind(column(item).col, value_type) :
            LET call == CellCall("set", item, column(item).col, row_id, value,
                                 value_type,
                     RastrTable_set(row_id, item, value, value_type))
            IN /\ col_last = NoCellCall
               /\ col_last' = call
               /\ rows' = EngineApply(rows, call.out.engine)
               /\ UNCHANGED <<debug, it_cut, rowIterVars, calcVars, rastrVars, propVars, selVars, iterVars>>

TableGet ==
    \E item \in ItemsTried, row_id \in RowIdsTried, value_type \in KindsTried :
        LET call == CellCall("get", item, column(item).col, row_id, PyNone,
                             value_type,
                 RastrTable_get(row_id, item, value_type))
        IN /\ col_last = NoCellCall
           /\ col_last' = call
           /\ rows' = EngineApply(rows, call.out.engine)
           /\ UNCHANGED <<debug, it_cut, rowIterVars, calcVars, rastrVars, propVars, selVars, iterVars>>

InitVal ==
    /\ debug \in BOOLEAN
    /\ calc_last = NoCall
    /\ rows \in AllTables
    /\ col_last = NoCellCall
    /\ props = <<>>
    /\ prop_last = NoPropCall
    /\ prop_writes = 0
    /\ sel = EmptySel
    /\ tbl_last = NoTableCall
    /\ it_pc = "none" /\ it_row = PyNone /\ it_out = <<>> /\ it_clean = TRUE
    /\ edits = 0
    /\ load_last = NoLoadCall
    /\ tables = TablesAtStart
    /\ look_last = NoLookCall
    /\ file = NoFile
    /\ it_cut = "none"
    /\ ri_made = FALSE /\ ri_idx = -1 /\ ri_out = <<>>

\* the caller takes the outcome of the call
CellReturned ==
    /\ col_last # NoCellCall
    /\ col_last' = NoCellCall
    /\ UNCHANGED <<debug, it_cut, rowIterVars, rows, calcVars, rastrVars, propVars, selVars, iterVars>>

NextVal == SetValue \/ GetValue \/ TableSet \/ TableGet \/ CellReturned

SpecVal == InitVal /\ [][NextVal]_vars

-----------------------------------------------------------------------------
(* Claims about cell values *)

\* the cells of the table other than cell (row_id, c) are as before the call
OtherCellsKept(before, after, row_id, c) ==
    /\ Len(after) = Len(before)
    /\ \A k \in DOMAIN before :
        /\ after[k].uid = before[k].uid
        /\ \A d \in Cols : (k # row_id + 1 \/ d # c) => after[k].z[d] = before[k].z[d]

\* the read that follows a write: the same method level, row, column, kind
ReadBack(call) ==
    IF call.op = "set"
    THEN RastrTable_get(call.row, call.item, call.value_type)
    ELSE getValue(call.col, call.row, call.value_type)

\* C3: for a valid row id and each of the three kinds, setValue(r, v, k)
\* followed by getValue(r, k) on the same column returns v, and the cells
\* of every other row and column are unchanged (the same for the table's
\* set and get).
C3_SetThenGetReturnsValue ==
    ( /\ col_last.op \in {"setValue", "set"}
      /\ col_last.col \in Cols
      /\ EngineRowOk(col_last.row)
      /\ InValueTypes(col_last.value_type) ) =>
        /\ col_last.out.raised = NoError
        /\ ReadBack(col_last).raised = NoError
        /\ ReadBack(col_last).ret = col_last.value
        /\ OtherCellsKept(col_last.before, rows, col_last.row, col_last.col)

\* a scaled string written to a cell of the column whose scale is not 1
\* changed the stored value
C3_Witness ==
    /\ col_last.op = "set"
    /\ col_last.value_type = "scaled_string"
    /\ col_last.out.raised = NoError
    /\ EngineRowOk(col_last.row)
    /\ EngineScale(col_last.col) # 1
    /\ col_last.value.digits # 0
    /\ col_last.before[col_last.row + 1].z[col_last.col] = 0
    /\ rows[col_last.row + 1].z[col_last.col] # 0

\* C4: getValue and setValue (and the table's get and set, once the column
\* is found) called with a kind other than the three always raise an error,
\* call no cell routine of the engine and leave every cell unchanged.
C4_BadKindAlwaysRaises ==
    ( /\ col_last.op \in {"setValue", "getValue", "set", "get"}
      /\ col_last.col \in Cols
      /\ ~ InValueTypes(col_last.value_type) ) =>
        /\ col_last.out.raised # NoError
        /\ col_last.out.engine = <<>>
        /\ rows = col_last.before

-----------------------------------------------------------------------------
(* RastrColumn: column properties *)

\* self._property_types
property_types ==
    <<"FL_NAME", "FL_TIP", "FL_WIDTH", "FL_PREC", "FL_ZAG", "FL_FORMULA", "FL_AFOR",
      "FL_XRM", "FL_NAMEREF", "FL_DESC", "FL_MIN", "FL_MAX", "FL_MASH">>

\* `property_type in self._property_types`
InPropertyTypes(property_type) ==
    \E k \in DOMAIN property_types : property_types[k] = property_type

\* list.index(x): the position of x counted from 0
property_types_index(property_type) ==
    (CHOOSE k \in DOMAIN property_types : property_types[k] = property_type) - 1

\* the property indices the engine holds for a column
PropIndices == 0..(Len(property_types) - 1)

\* self._column.Prop(index)
EngineProp(c, index) == props[c][index]
\* self._column.SetProp(index, value)
EngineSetProp(prp, c, index, value) == [prp EXCEPT ![c][index] = value]

PropCall(routine, c, index, value) ==
    [routine |-> routine, col |-> c, index |-> index, arg |-> value]

\* the properties after the engine has served the calls of one operation
RECURSIVE EnginePropApply(_, _)
EnginePropApply(prp, calls) ==
    IF calls = <<>> THEN prp
    ELSE LET call == Head(calls)
             done == IF call.routine = "SetProp"
                     THEN EngineSetProp(prp, call.col, call.index, call.arg)
                     ELSE prp
         IN EnginePropApply(done, Tail(calls))

\* getProperty addressing the property one position further on
getProperty_NextIndex(c, property_type) ==
    IF debug /\ ~ InPropertyTypes(property_type)
    THEN Raise("AssertionError", <<>>)
    ELSE IF ~ InPropertyTypes(property_type)
    THEN Raise("ValueError", <<>>)
    ELSE LET index == (property_types_index(property_type) + 1) % Len(property_types)
         IN Return(EngineProp(c, index), <<PropCall("Prop", c, index, PyNone)>>)

\* RastrColumn.getProperty: the assert, and without it list.index, which
\* raises ValueError before Prop is called
getProperty(c, property_type) ==
    IF debug /\ ~ InPropertyTypes(property_type)
    THEN Raise("AssertionError", <<>>)
    ELSE IF ~ InPropertyTypes(property_type)
    THEN Raise("ValueError", <<>>)
    ELSE LET index == property_types_index(property_type)
         IN Return(EngineProp(c, index), <<PropCall("Prop", c, index, PyNone)>>)

\* RastrColumn.setProperty
setProperty(c, property_type, value) ==
    IF debug /\ ~ InPropertyTypes(property_type)
    THEN Raise("AssertionError", <<>>)
    ELSE IF ~ InPropertyTypes(property_type)
    THEN Raise("ValueError", <<>>)
    ELSE LET index == property_types_index(property_type)
         IN Return(PyNone, <<PropCall("SetProp", c, index, value)>>)

\* property kinds passed: the thirteen of _property_types and some others
PropertyKindsTried ==
    {property_types[k] : k \in DOMAIN property_types} \cup {"FL_SCALE", "fl_name", ""}
PropValues == {PyInt(v) : v \in Vals}

PropertyCall(op, c, property_type, value, out) ==
    [op |-> op, col |-> c, property_type |-> property_type, value |-> value,
     out |-> out, before |-> props]

GetProperty ==
    \E c \in Cols, property_type \in PropertyKindsTried :
        /\ prop_last = NoPropCall
        /\ prop_last' = PropertyCall("getProperty", c, property_type, PyNone,
                                     getProperty(c, property_type))
        /\ UNCHANGED <<debug, it_cut, rowIterVars, rows, props, prop_writes, calcVars, rastrVars, cellVars, selVars, iterVars>>

SetProperty ==
    \E c \in Cols, property_type \in PropertyKindsTried, value \in PropValues :
        LET call == PropertyCall("setProperty", c, property_type, value,
                                 setProperty(c, property_type, value))
        IN /\ prop_last = NoPropCall
           /\ prop_writes + Len(call.out.engine) <= MaxPropWrites
           /\ prop_last' = call
           /\ props' = EnginePropApply(props, call.out.engine)
           /\ prop_writes' = prop_writes + Len(call.out.engine)
           /\ UNCHANGED <<debug, it_cut, rowIterVars, rows, calcVars, rastrVars, cellVars, selVars, iterVars>>

\* the caller takes the outcome of the call
PropReturned ==
    /\ prop_last # NoPropCall
    /\ prop_last' = NoPropCall
    /\ UNCHANGED <<debug, it_cut, rowIterVars, rows, props, prop_writes, calcVars, rastrVars, cellVars, selVars, iterVars>>

InitProp ==
    /\ debug \in BOOLEAN
    /\ calc_last = NoCall
    /\ rows = <<>>
    /\ col_last = NoCellCall
    /\ props = [c \in Cols |-> [index \in PropIndices |-> PyInt(0)]]
    /\ prop_last = NoPropCall
    /\ prop_writes = 0
    /\ sel = EmptySel
    /\ tbl_last = NoTableCall
    /\ it_pc = "none" /\ it_row = PyNone /\ it_out = <<>> /\ it_clean = TRUE
    /\ edits = 0
    /\ load_last = NoLoadCall
    /\ tables = TablesAtStart
    /\ look_last = NoLookCall
    /\ file = NoFile
    /\ it_cut = "none"
    /\ ri_made = FALSE /\ ri_idx = -1 /\ ri_out = <<>>

NextProp == GetProperty \/ SetProperty \/ PropReturned

SpecProp == InitProp /\ [][NextProp]_vars

-----------------------------------------------------------------------------
(* Claims about column properties *)

\* C5: getProperty and setProperty accept exactly the 13 property kinds; for
\* any other kind both raise before the engine is called and no property
\* changes.  For a recognized kind both address the engine property at the
\* kind's position 0..12 in the list, so that setProperty(k, v) followed by
\* getProperty(k) returns v and the other properties are unchanged.
C5_PropertyKindsChecked ==
    prop_last.op \in {"getProperty", "setProperty"} =>
        IF InPropertyTypes(prop_last.property_type)
        THEN /\ prop_last.out.raised = NoError
             /\ Len(prop_last.out.engine) = 1
             /\ prop_last.out.engine[1].index \in 0..12
             /\ property_types[prop_last.out.engine[1].index + 1] = prop_last.property_type
             /\ prop_last.op = "setProperty" =>
                  /\ getProperty(prop_last.col, prop_last.property_type).ret = prop_last.value
                  /\ \A c \in Cols, index \in PropIndices :
                       (c # prop_last.col \/ index # prop_last.out.engine[1].index)
                           => props[c][index] = prop_last.before[c][index]
             /\ prop_last.op = "getProperty" =>
                  /\ prop_last.out.ret = props[prop_last.col][prop_last.out.engine[1].index]
                  /\ props = prop_last.before
        ELSE /\ prop_last.out.raised # NoError
             /\ prop_last.out.engine = <<>>
             /\ props = prop_last.before

\* the last of the 13 properties was set to a new value with assertions off
C5_Witness ==
    /\ ~ debug
    /\ prop_last.op = "setProperty"
    /\ prop_last.property_type = "FL_MASH"
    /\ prop_last.out.raised = NoError
    /\ prop_last.before[prop_last.col][12] # prop_last.value
    /\ props[prop_last.col][12] = prop_last.value

-----------------------------------------------------------------------------
(* The engine's row selection *)

\* the selection strings tried
SelStrings == {EmptySel} \cup {<<ColNames[c], v>> : c \in Cols, v \in Vals}

\* the selection is a view of the table: a row is in it when the row, as it
\* is now, satisfies the selection string (the empty string selects all)
EngineMatches(s, row) ==
    \/ s = EmptySel
    \/ /\ s # EmptySel
       /\ \E c \in Cols : ColNames[c] = s[1] /\ row.z[c] = s[2]

\* the row ids of the rows of tbl that selection s holds
EngineSelected(tbl, s) == {r \in 0..(Len(tbl) - 1) : EngineMatches(s, tbl[r + 1])}

\* self._table.TestSel(row_id)
EngineTestSel(tbl, s, row_id) == PyBool(row_id \in EngineSelected(tbl, s))

\* self._table.FindNextSel(row_id): the next row after row_id that is in the
\* selection, -1 when there is none
EngineFindNextSel(tbl, s, row_id) ==
    LET later == {r \in EngineSelected(tbl, s) : r > row_id}
    IN IF later = {} THEN -1
       ELSE CHOOSE r \in later : \A q \in later : r <= q

\* self._table.Count: the number of rows in the selection
EngineCount(tbl, s) == Cardinality(EngineSelected(tbl, s))

\* what a call of the engine's SetSel method evaluates to: the method has
\* no return value
EngineSetSelValue == PyNone

TblCall(routine, arg) == [routine |-> routine, arg |-> arg]

\* the selection string after the engine has served the calls of one operation
RECURSIVE EngineSelApply(_, _)
EngineSelApply(s, calls) ==
    IF calls = <<>> THEN s
    ELSE EngineSelApply(IF Head(calls).routine = "SetSel" THEN Head(calls).arg ELSE s,
                        Tail(calls))

-----------------------------------------------------------------------------
(* RastrTable: selection *)

\* bool(x): None is false, a number is true unless 0, a str unless empty,
\* an object without __bool__ and __len__ (an exception) always
PyTruth(x) ==
    CASE x.t = "bool" -> x.b
      [] x.t = "int" -> x.n # 0
      [] x.t = "float" -> x.n # 0
      [] x.t = "str" -> x.s # ""
      [] x.t = "exception" -> TRUE
      [] OTHER -> FALSE

\* RastrTable.setSelection: SetSel, then the Count of the new selection
setSelection(selection) ==
    Return(PyInt(EngineCount(rows, selection)),
           <<TblCall("SetSel", selection), TblCall("Count", PyNone)>>)

\* clearSelection leaving the selection as it is
clearSelection_Keeps == Return(EngineSetSelValue, <<>>)

\* RastrTable.clearSelection: returns what SetSel("") returns
clearSelection == Return(EngineSetSelValue, <<TblCall("SetSel", EmptySel)>>)

\* RastrTable.checkRowSelection
checkRowSelection(row_id) ==
    Return(PyBool(PyTruth(EngineTestSel(rows, sel, row_id))),
           <<TblCall("TestSel", PyInt(row_id))>>)

\* findNextRowSelection taking row 0 for "no row"
findNextRowSelection_ZeroIsNone(row_id) ==
    LET next_row_id == EngineFindNextSel(rows, sel, row_id)
    IN IF next_row_id <= 0
       THEN Return(PyNone, <<TblCall("FindNextSel", PyInt(row_id))>>)
       ELSE Return(PyInt(next_row_id), <<TblCall("FindNextSel", PyInt(row_id))>>)

\* findNextRowSelection searching from the row after row_id
findNextRowSelection_SkipsOne(row_id) ==
    LET next_row_id == EngineFindNextSel(rows, sel, row_id + 1)
    IN IF next_row_id = -1
       THEN Return(PyNone, <<TblCall("FindNextSel", PyInt(row_id + 1))>>)
       ELSE Return(PyInt(next_row_id), <<TblCall("FindNextSel", PyInt(row_id + 1))>>)

\* RastrTable.findNextRowSelection
findNextRowSelection(row_id) ==
    LET next_row_id == EngineFindNextSel(rows, sel, row_id)
    IN IF next_row_id = -1
       THEN Return(PyNone, <<TblCall("FindNextSel", PyInt(row_id))>>)
       ELSE Return(PyInt(next_row_id), <<TblCall("FindNextSel", PyInt(row_id))>>)

\* RastrTable.count (size), RastrTable.rowsCount (fullSize)
count == Return(PyInt(EngineCount(rows, sel)), <<TblCall("Count", PyNone)>>)
rowsCount == Return(PyInt(EngineSize), <<TblCall("Size", PyNone)>>)
fullSize == rowsCount

\* the call made last: the method, its argument, its outcome, and the table
\* and selection before it
TableCall(op, arg, out) ==
    [op |-> op, arg |-> arg, out |-> out, before |-> rows, before_sel |-> sel]

SetSelection ==
    \E selection \in SelStrings :
        LET call == TableCall("setSelection", selection, setSelection(selection))
        IN /\ tbl_last = NoTableCall
           /\ tbl_last' = call
           /\ sel' = EngineSelApply(sel, call.out.engine)
           /\ UNCHANGED <<debug, it_cut, rowIterVars, rows, calcVars, rastrVars, cellVars, propVars, iterVars>>

ClearSelection ==
    LET call == TableCall("clearSelection", PyNone, clearSelection)
    IN /\ tbl_last = NoTableCall
       /\ tbl_last' = call
       /\ sel' = EngineSelApply(sel, call.out.engine)
       /\ UNCHANGED <<debug, it_cut, rowIterVars, rows, calcVars, rastrVars, cellVars, propVars, iterVars>>

CheckRowSelection ==
    \E row_id \in 0..(EngineSize - 1) :
        /\ tbl_last = NoTableCall
        /\ tbl_last' = TableCall("checkRowSelection", PyInt(row_id),
                                 checkRowSelection(row_id))
        /\ UNCHANGED <<debug, it_cut, rowIterVars, rows, sel, calcVars, rastrVars, cellVars, propVars, iterVars>>

\* findNextRowSelection(row_id), and findNextRowSelection() whose row_id
\* is the default -1
FindNextRowSelection ==
    \E row_id \in (-1)..(EngineSize - 1) :
        /\ tbl_last = NoTableCall
        /\ tbl_last' = TableCall("findNextRowSelection", PyInt(row_id),
                                 findNextRowSelection(row_id))
        /\ UNCHANGED <<debug, it_cut, rowIterVars, rows, sel, calcVars, rastrVars, cellVars, propVars, iterVars>>

Count ==
    /\ tbl_last = NoTableCall
    /\ tbl_last' = TableCall("count", PyNone, count)
    /\ UNCHANGED <<debug, it_cut, rowIterVars, rows, sel, calcVars, rastrVars, cellVars, propVars, iterVars>>

RowsCount ==
    /\ tbl_last = NoTableCall
    /\ tbl_last' = TableCall("rowsCount", PyNone, rowsCount)
    /\ UNCHANGED <<debug, it_cut, rowIterVars, rows, sel, calcVars, rastrVars, cellVars, propVars, iterVars>>

\* the caller takes the outcome of the call
TableReturned ==
    /\ tbl_last # NoTableCall
    /\ tbl_last' = NoTableCall
    /\ UNCHANGED <<debug, it_cut, rowIterVars, rows, sel, calcVars, rastrVars, cellVars, propVars, iterVars>>

\* a table of the workspace with some content; a new table object is
\* Unrestricted, but the engine's table may carry a selection set earlier
InitSel ==
    /\ debug = TRUE
    /\ calc_last = NoCall
    /\ rows \in AllTables
    /\ col_last = NoCellCall
    /\ props = <<>>
    /\ prop_last = NoPropCall
    /\ prop_writes = 0
    /\ sel \in SelStrings
    /\ tbl_last = NoTableCall
    /\ it_pc = "none" /\ it_row = PyNone /\ it_out = <<>> /\ it_clean = TRUE
    /\ edits = 0
    /\ load_last = NoLoadCall
    /\ tables = TablesAtStart
    /\ look_last = NoLookCall
    /\ file = NoFile
    /\ it_cut = "none"
    /\ ri_made = FALSE /\ ri_idx = -1 /\ ri_out = <<>>

NextSel ==
    \/ SetSelection \/ ClearSelection \/ CheckRowSelection \/ FindNextRowSelection
    \/ Count \/ RowsCount \/ TableReturned

SpecSel == InitSel /\ [][NextSel]_vars

-----------------------------------------------------------------------------
(* Claims about the selection *)

\* the row ids returned by findNextRowSelection called again and again,
\* first with row_id and then with the id it returned last, until it
\* returns None
RECURSIVE RepeatedFindNext(_)
RepeatedFindNext(row_id) ==
    LET found == findNextRowSelection(row_id).ret
    IN IF found = PyNone THEN <<>>
       ELSE <<found.n>> \o RepeatedFindNext(found.n)

Range(f) == {f[k] : k \in DOMAIN f}

\* C6: after setSelection(P), a row id r satisfies checkRowSelection(r) if
\* and only if r is returned by the iteration of findNextRowSelection
\* started at -1.
C6_CheckedIffIterated ==
    tbl_last.op = "setSelection" =>
        \A r \in 0..(EngineSize - 1) :
            (checkRowSelection(r).ret = PyBool(TRUE)) <=> (r \in Range(RepeatedFindNext(-1)))

\* a selection that holds row 0 and leaves another row out
C6_Witness ==
    /\ tbl_last.op = "setSelection"
    /\ tbl_last.arg # EmptySel
    /\ EngineSize >= 2
    /\ checkRowSelection(0).ret = PyBool(TRUE)
    /\ \E r \in 1..(EngineSize - 1) : checkRowSelection(r).ret = PyBool(FALSE)

\* C7: from any selection state, clearSelection() and setSelection("") both
\* leave the table Unrestricted: checkRowSelection(r) is true for every row
\* id in [0, fullSize), count equals fullSize, and the two calls leave the
\* same selection.
C7_ClearIsUnrestricted ==
    /\ ( \/ tbl_last.op = "clearSelection"
         \/ (tbl_last.op = "setSelection" /\ tbl_last.arg = EmptySel) ) =>
           /\ \A r \in 0..(EngineSize - 1) : checkRowSelection(r).ret = PyBool(TRUE)
           /\ count.ret = fullSize.ret
    /\ EngineSelApply(sel, clearSelection.engine)
           = EngineSelApply(sel, setSelection(EmptySel).engine)

\* clearSelection called while the selection left a row out
C7_Witness ==
    /\ tbl_last.op = "clearSelection"
    /\ EngineCount(tbl_last.before, tbl_last.before_sel) < Len(tbl_last.before)
    /\ count.ret = PyInt(MaxRows)

\* C8: clearSelection() returns the table's full row count and
\* setSelection(P) the number of rows matching P; clearSelection() and
\* setSelection("") return the same number.
C8_ClearReturnsFullSize ==
    /\ tbl_last.op = "clearSelection" => tbl_last.out.ret = PyInt(Len(rows))
    /\ tbl_last.op = "setSelection" =>
           tbl_last.out.ret = PyInt(Cardinality(EngineSelected(rows, tbl_last.arg)))
    /\ tbl_last.op = "clearSelection" => tbl_last.out.ret = setSelection(EmptySel).ret

\* C9: findNextRowSelection(row_id) returns the smallest row id greater than
\* row_id that is in the selection, and None (never -1, never a row outside
\* the selection) exactly when there is no such row; with -1, the default,
\* it returns the first selected row, row 0 included.
C9_FindNextIsSmallestLater ==
    tbl_last.op = "findNextRowSelection" =>
        LET later == {r \in 0..(EngineSize - 1) :
                        /\ r > tbl_last.arg.n
                        /\ checkRowSelection(r).ret = PyBool(TRUE)}
            ret == tbl_last.out.ret
        IN /\ tbl_last.out.raised = NoError
           /\ IF later = {} THEN ret = PyNone
              ELSE /\ ret.t = "int"
                   /\ ret.n \in later
                   /\ \A q \in later : ret.n <= q

\* called with -1, it returned row 0 of a restricted selection
C9_Witness ==
    /\ tbl_last.op = "findNextRowSelection"
    /\ tbl_last.arg = PyInt(-1)
    /\ tbl_last.out.ret = PyInt(0)
    /\ sel # EmptySel
    /\ EngineCount(rows, sel) < EngineSize

-----------------------------------------------------------------------------
(* RastrTable: inserting and deleting a row *)

\* the tag of a new row: the smallest one no row of the table carries
FreshUid(tbl) ==
    CHOOSE u \in 1..(Len(tbl) + 1) :
        /\ \A k \in DOMAIN tbl : tbl[k].uid # u
        /\ \A w \in 1..(u - 1) : \E k \in DOMAIN tbl : tbl[k].uid = w

\* an empty row: every cell holds the default 0
EmptyRow(tbl) == [uid |-> FreshUid(tbl), z |-> [c \in Cols |-> 0]]

\* self._table.InsRow(row_id): an empty row is put before the row with id
\* row_id, which with the rows after it moves up by one
EngineInsRow(tbl, row_id) ==
    SubSeq(tbl, 1, row_id) \o <<EmptyRow(tbl)>> \o SubSeq(tbl, row_id + 1, Len(tbl))

\* self._table.DelRow(row_id): the row is removed and the rows after it
\* move down by one
EngineDelRow(tbl, row_id) ==
    SubSeq(tbl, 1, row_id) \o SubSeq(tbl, row_id + 2, Len(tbl))

\* the table after the engine has served the row calls of one operation
RECURSIVE EngineRowsApply(_, _)
EngineRowsApply(tbl, calls) ==
    IF calls = <<>> THEN tbl
    ELSE LET call == Head(calls)
             done == CASE call.routine = "InsRow" -> EngineInsRow(tbl, call.arg.n)
                       [] call.routine = "DelRow" -> EngineDelRow(tbl, call.arg.n)
                       [] OTHER -> tbl
         IN EngineRowsApply(done, Tail(calls))

\* insertRow putting the empty row after the row with id row_id
insertRow_After(row_id) == Return(PyInt(row_id - 1), <<TblCall("InsRow", PyInt(row_id + 1))>>)

\* insertRow returning the id it was given
insertRow_SameId(row_id) == Return(PyInt(row_id), <<TblCall("InsRow", PyInt(row_id))>>)

\* RastrTable.insertRow (insert)
insertRow(row_id) == Return(PyInt(row_id - 1), <<TblCall("InsRow", PyInt(row_id))>>)

\* RastrTable.deleteRow (remove, delete)
deleteRow(row_id) == Return(PyNone, <<TblCall("DelRow", PyInt(row_id))>>)

\* a generator of iterRows that has been created and has not finished
IterRunning == it_pc \in {"created", "suspended"}

InsertRow ==
    \E row_id \in 0..(EngineSize - 1) :
        LET call == TableCall("insertRow", PyInt(row_id), insertRow(row_id))
        IN /\ tbl_last = NoTableCall
           /\ edits < MaxEdits
           /\ EngineSize < MaxRows
           /\ tbl_last' = call
           /\ rows' = EngineRowsApply(rows, call.out.engine)
           /\ edits' = edits + 1
           /\ it_clean' = FALSE
           /\ it_cut' = it_pc
           /\ UNCHANGED <<debug, rowIterVars, sel, calcVars, rastrVars, cellVars, propVars, it_pc, it_row, it_out>>

DeleteRow ==
    \E row_id \in 0..(EngineSize - 1) :
        LET call == TableCall("deleteRow", PyInt(row_id), deleteRow(row_id))
        IN /\ tbl_last = NoTableCall
           /\ edits < MaxEdits
           /\ tbl_last' = call
           /\ rows' = EngineRowsApply(rows, call.out.engine)
           /\ edits' = edits + 1
           /\ it_clean' = FALSE
           /\ it_cut' = it_pc
           /\ UNCHANGED <<debug, rowIterVars, sel, calcVars, rastrVars, cellVars, propVars, it_pc, it_row, it_out>>

-----------------------------------------------------------------------------
(* RastrTable.iterRows *)

\* `x is not None`
IsNotNone(x) == x # PyNone

\* one resumption of the generator with its loop tested by `while row_id:`
iterRows_next_Truthy(pc, row_id) ==
    LET found == IF pc = "created" THEN findNextRowSelection(-1).ret
                 ELSE findNextRowSelection(row_id.n).ret
    IN IF PyTruth(found)
       THEN [pc |-> "suspended", row_id |-> found, yielded |-> <<found.n>>]
       ELSE [pc |-> "done", row_id |-> found, yielded |-> <<>>]

\* One resumption of the generator, by next().  The first runs
\* row_id = self.findNextRowSelection(); a later one runs
\* row_id = self.findNextRowSelection(row_id) after the yield.  Then the
\* loop test: the generator yields row_id, or ends.
iterRows_next(pc, row_id) ==
    LET found == IF pc = "created" THEN findNextRowSelection(-1).ret
                 ELSE findNextRowSelection(row_id.n).ret
    IN IF IsNotNone(found)
       THEN [pc |-> "suspended", row_id |-> found, yielded |-> <<found.n>>]
       ELSE [pc |-> "done", row_id |-> found, yielded |-> <<>>]

\* iterRows() is called: a generator is made, none of its body has run
IterRows ==
    /\ ~ IterRunning
    /\ it_pc' = "created"
    /\ it_row' = PyNone
    /\ it_out' = <<>>
    /\ it_clean' = TRUE
    /\ it_cut' = "none"
    /\ UNCHANGED <<debug, rowIterVars, rows, edits, calcVars, rastrVars, cellVars, propVars, selVars>>

\* next() on the generator
IterNext ==
    /\ IterRunning
    /\ LET step == iterRows_next(it_pc, it_row)
       IN /\ it_pc' = step.pc
          /\ it_row' = step.row_id
          /\ it_out' = it_out \o [k \in DOMAIN step.yielded |->
                                    [id |-> step.yielded[k],
                                     uid |-> rows[step.yielded[k] + 1].uid]]
    /\ UNCHANGED <<debug, it_cut, rowIterVars, rows, edits, it_clean, calcVars, rastrVars, cellVars, propVars, selVars>>

InitIter == InitSel

NextIter == IterRows \/ IterNext \/ InsertRow \/ DeleteRow \/ TableReturned

SpecIter == InitIter /\ [][NextIter]_vars

\* a caller that iterates keeps calling next() until the generator ends
FairIter == SpecIter /\ WF_vars(IterNext)

-----------------------------------------------------------------------------
(* Claims about iterRows *)

\* the elements of a set of numbers in increasing order
RECURSIVE Increasing(_)
Increasing(S) ==
    IF S = {} THEN <<>>
    ELSE LET least == CHOOSE r \in S : \A q \in S : r <= q
         IN <<least>> \o Increasing(S \ {least})

\* the row ids that checkRowSelection holds to be in the selection
CheckedRows == {r \in 0..(EngineSize - 1) : checkRowSelection(r).ret = PyBool(TRUE)}

YieldedIds == [k \in DOMAIN it_out |-> it_out[k].id]

\* C10: with no row inserted or deleted during the iteration, iterRows
\* yields the selected row ids in strictly increasing order, each once (row
\* 0 included; nothing for an empty selection), and it terminates: what it
\* has yielded is always the beginning of the increasing list of selected
\* rows, it is the whole list when the generator has ended, and a generator
\* that is resumed again and again ends.
C10_IterRowsInOrderAndEnds ==
    /\ [](it_clean =>
            /\ Len(it_out) <= Len(Increasing(CheckedRows))
            /\ YieldedIds = SubSeq(Increasing(CheckedRows), 1, Len(it_out))
            /\ (it_pc = "done" => YieldedIds = Increasing(CheckedRows)))
    /\ (IterRunning ~> (it_pc = "done"))

\* an undisturbed iteration has ended after yielding row 0 and a later row,
\* having passed over a row that is not selected
C10_Witness ==
    /\ it_pc = "done"
    /\ it_clean
    /\ Len(it_out) >= 2
    /\ it_out[1].id = 0
    /\ Len(it_out) < EngineSize

-----------------------------------------------------------------------------
(* RastrTable: adding, duplicating, swapping rows and deleting the selection *)

\* self._table.AddRow(): an empty row is put at the end of the table
EngineAddRow(tbl) == Append(tbl, EmptyRow(tbl))

\* self._table.DupRow(row_id): a new row with the cell values of the row
\* with id row_id is put right after it
EngineDupRow(tbl, row_id) ==
    SubSeq(tbl, 1, row_id + 1)
        \o <<[uid |-> FreshUid(tbl), z |-> tbl[row_id + 1].z]>>
        \o SubSeq(tbl, row_id + 2, Len(tbl))

\* self._table.swapRow(i, j): the two rows change places
EngineSwapRow(tbl, i, j) ==
    [k \in DOMAIN tbl |->
        IF k = i + 1 THEN tbl[j + 1] ELSE IF k = j + 1 THEN tbl[i + 1] ELSE tbl[k]]

\* self._table.DelRowS(): the rows in the selection are removed, the others
\* close up in their order
RECURSIVE EngineDelRowS(_, _)
EngineDelRowS(tbl, s) ==
    IF tbl = <<>> THEN <<>>
    ELSE IF EngineMatches(s, Head(tbl)) THEN EngineDelRowS(Tail(tbl), s)
    ELSE <<Head(tbl)>> \o EngineDelRowS(Tail(tbl), s)

\* the table after the engine has served the row calls of one operation,
\* under selection s
RECURSIVE EngineTableApply(_, _, _)
EngineTableApply(tbl, s, calls) ==
    IF calls = <<>> THEN tbl
    ELSE LET call == Head(calls)
             done == CASE call.routine = "AddRow" -> EngineAddRow(tbl)
                       [] call.routine = "DupRow" -> EngineDupRow(tbl, call.arg.n)
                       [] call.routine = "swapRow" ->
                            EngineSwapRow(tbl, call.arg[1].n, call.arg[2].n)
                       [] call.routine = "DelRowS" -> EngineDelRowS(tbl, s)
                       [] OTHER -> EngineRowsApply(tbl, <<call>>)
         IN EngineTableApply(done, s, Tail(calls))

\* addRow with its result taken from the Size read before the append
addRow_SizeBefore ==
    Return(PyInt(EngineSize - 1), <<TblCall("AddRow", PyNone), TblCall("Size", PyNone)>>)

\* RastrTable.addRow (add): self._table.AddRow(), then self._table.Size - 1
addRow ==
    LET calls == <<TblCall("AddRow", PyNone)>>
        after == EngineTableApply(rows, sel, calls)
    IN Return(PyInt(Len(after) - 1), calls \o <<TblCall("Size", PyNone)>>)

\* duplicateRow returning the id it was given
duplicateRow_SameId(row_id) ==
    Return(PyInt(row_id), <<TblCall("DupRow", PyInt(row_id))>>)

\* RastrTable.duplicateRow (duplicate)
duplicateRow(row_id) == Return(PyInt(row_id + 1), <<TblCall("DupRow", PyInt(row_id))>>)

\* what a call of the engine's swapRow method evaluates to: the method has
\* no return value
EngineSwapRowValue == PyNone

\* RastrTable.swapRows (swap)
swapRows(row_id_i, row_id_j) ==
    Return(EngineSwapRowValue, <<TblCall("swapRow", <<PyInt(row_id_i), PyInt(row_id_j)>>)>>)

\* deleteRows deleting the first row of the table only
deleteRows_FirstRow == Return(PyNone, <<TblCall("DelRow", PyInt(0))>>)

\* RastrTable.deleteRows
deleteRows == Return(PyNone, <<TblCall("DelRowS", PyNone)>>)

AddRow ==
    LET call == TableCall("addRow", PyNone, addRow)
    IN /\ tbl_last = NoTableCall
       /\ edits < MaxEdits
       /\ EngineSize < MaxRows
       /\ tbl_last' = call
       /\ rows' = EngineTableApply(rows, sel, call.out.engine)
       /\ edits' = edits + 1
       /\ it_clean' = FALSE
       /\ it_cut' = it_pc
       /\ UNCHANGED <<debug, rowIterVars, sel, calcVars, rastrVars, cellVars, propVars, it_pc, it_row, it_out>>

DuplicateRow ==
    \E row_id \in 0..(EngineSize - 1) :
        LET call == TableCall("duplicateRow", PyInt(row_id), duplicateRow(row_id))
        IN /\ tbl_last = NoTableCall
           /\ edits < MaxEdits
           /\ EngineSize < MaxRows
           /\ tbl_last' = call
           /\ rows' = EngineTableApply(rows, sel, call.out.engine)
           /\ edits' = edits + 1
           /\ it_clean' = FALSE
           /\ it_cut' = it_pc
           /\ UNCHANGED <<debug, rowIterVars, sel, calcVars, rastrVars, cellVars, propVars, it_pc, it_row, it_out>>

SwapRows ==
    \E row_id_i \in 0..(EngineSize - 1), row_id_j \in 0..(EngineSize - 1) :
        LET call == TableCall("swapRows", <<PyInt(row_id_i), PyInt(row_id_j)>>,
                              swapRows(row_id_i, row_id_j))
        IN /\ tbl_last = NoTableCall
           /\ edits < MaxEdits
           /\ tbl_last' = call
           /\ rows' = EngineTableApply(rows, sel, call.out.engine)
           /\ edits' = edits + 1
           /\ it_clean' = FALSE
           /\ it_cut' = it_pc
           /\ UNCHANGED <<debug, rowIterVars, sel, calcVars, rastrVars, cellVars, propVars, it_pc, it_row, it_out>>

DeleteRows ==
    LET call == TableCall("deleteRows", PyNone, deleteRows)
    IN /\ tbl_last = NoTableCall
       /\ edits < MaxEdits
       /\ tbl_last' = call
       /\ rows' = EngineTableApply(rows, sel, call.out.engine)
       /\ edits' = edits + 1
       /\ it_clean' = FALSE
       /\ it_cut' = it_pc
       /\ UNCHANGED <<debug, rowIterVars, sel, calcVars, rastrVars, cellVars, propVars, it_pc, it_row, it_out>>

InitRows == InitSel

NextRows ==
    \/ AddRow \/ InsertRow \/ DuplicateRow \/ SwapRows \/ DeleteRow \/ DeleteRows
    \/ SetSelection \/ ClearSelection \/ TableReturned

SpecRows == InitRows /\ [][NextRows]_vars

-----------------------------------------------------------------------------
(* Claims about the rows of a table *)

\* the tags of the rows of a table
Uids(tbl) == {tbl[k].uid : k \in DOMAIN tbl}

C12_InsertRowReturnsNewRowId ==
    (tbl_last.op = "insertRow" /\ tbl_last.arg.n \in 0..(Len(tbl_last.before) - 1)) =>
        LET id == tbl_last.out.ret.n
        IN /\ EngineRowOk(id)
           /\ EngineRowOk(id + 1)
           /\ rows[id + 1].uid \notin Uids(tbl_last.before)
           /\ \A c \in Cols : rows[id + 1].z[c] = 0
           /\ rows[id + 2] = tbl_last.before[tbl_last.arg.n + 1]

\* C13: duplicateRow(r) for a valid row id r makes fullSize one larger and
\* returns r + 1, the id of the new row, whose cell values are those of
\* row r; the rows with ids up to r keep their ids and values.
C13_DuplicateRowReturnsNewRowId ==
    (tbl_last.op = "duplicateRow" /\ tbl_last.arg.n \in 0..(Len(tbl_last.before) - 1)) =>
        LET r == tbl_last.arg.n
            id == tbl_last.out.ret.n
        IN /\ tbl_last.out.raised = NoError
           /\ fullSize.ret = PyInt(Len(tbl_last.before) + 1)
           /\ id = r + 1
           /\ EngineRowOk(id)
           /\ rows[id + 1].uid \notin Uids(tbl_last.before)
           /\ rows[id + 1].z = tbl_last.before[r + 1].z
           /\ \A k \in 0..r : rows[k + 1] = tbl_last.before[k + 1]

\* a row that is not the last one and holds a value other than the default
\* was duplicated
C13_Witness ==
    /\ tbl_last.op = "duplicateRow"
    /\ tbl_last.arg.n + 1 < Len(tbl_last.before)
    /\ \E c \in Cols : tbl_last.before[tbl_last.arg.n + 1].z[c] # 0
    /\ EngineSize = Len(tbl_last.before) + 1

\* C14: deleteRows() removes exactly the rows in the selection at the time
\* of the call: fullSize goes down by the selection's count, every row not
\* in the selection is kept with its cell values and in its relative
\* order, and the columns are as before.
C14_DeleteRowsRemovesSelection ==
    tbl_last.op = "deleteRows" =>
        LET before == tbl_last.before
            gone == {before[r + 1].uid : r \in EngineSelected(before, tbl_last.before_sel)}
        IN /\ fullSize.ret = PyInt(Len(before) - EngineCount(before, tbl_last.before_sel))
           /\ Uids(rows) = Uids(before) \ gone
           /\ \A k \in DOMAIN rows : \E b \in DOMAIN before : rows[k] = before[b]
           /\ \A k, l \in DOMAIN rows : \A a, b \in DOMAIN before :
                (k < l /\ rows[k] = before[a] /\ rows[l] = before[b]) => a < b
           /\ \A k \in DOMAIN rows : DOMAIN rows[k].z = Cols
           /\ sel = tbl_last.before_sel

\* a selection holding some rows, and not the first and not all of them,
\* was deleted
C14_Witness ==
    /\ tbl_last.op = "deleteRows"
    /\ tbl_last.before_sel # EmptySel
    /\ 0 \notin EngineSelected(tbl_last.before, tbl_last.before_sel)
    /\ EngineCount(tbl_last.before, tbl_last.before_sel) = 2
    /\ EngineSize = 1

-----------------------------------------------------------------------------
(* UnexpectedResult *)

\* an exception object the engine raised, with the cause it reports
PyExc(cause) == [t |-> "exception", cause |-> cause]

\* the text UnexpectedResult.__str__ falls back to
DefaultText == PyStr("Unexpected result of execution!")

\* UnexpectedResult.__init__(*args): the message is the first argument, or None
UnexpectedResult_init(args) == IF args # <<>> THEN args[1] ELSE PyNone

\* str() of an UnexpectedResult: __str__ hands back the message when it is
\* truthy, else the default text; Python raises TypeError when __str__
\* hands back something that is not a str
UnexpectedResult_str(message) ==
    IF PyTruth(message)
    THEN IF message.t = "str" THEN Return(message, <<>>) ELSE Raise("TypeError", <<>>)
    ELSE Return(DefaultText, <<>>)

\* `raise UnexpectedResult(...)`: the outcome carries the exception's message
\* (the Russian message texts of the source are given in short English form)
RaiseUnexpectedResult(args, calls) ==
    [raised |-> "UnexpectedResult", engine |-> calls, ret |-> PyNone,
     message |-> UnexpectedResult_init(args)]

-----------------------------------------------------------------------------
(* RastrTable: CSV and CDU files *)

\* what the engine reports of a file call: it went through, or it failed
\* for the cause named
NoEngineError == "ok"
EngineErrors == {"cannot open file", "bad record"}
EngineReports == {NoEngineError} \cup EngineErrors

\* self._csv_codes.get(csv_code), self._cdu_codes.get(cdu_code)
csv_codes_get(csv_code) ==
    CASE csv_code = "CSV_ADD" -> PyInt(0)
      [] csv_code = "CSV_REPL" -> PyInt(1)
      [] csv_code = "CSV_KEY" -> PyInt(2)
      [] csv_code = "CSV_KEYADD" -> PyInt(3)
      [] csv_code = "CSV_REPLNAMES" -> PyInt(5)
      [] OTHER -> PyNone
cdu_codes_get(cdu_code) ==
    CASE cdu_code = "CDU_ADD" -> PyInt(0)
      [] cdu_code = "CDU_REPL" -> PyInt(1)
      [] cdu_code = "CDU_KEY" -> PyInt(2)
      [] cdu_code = "CDU_KEYADD" -> PyInt(3)
      [] OTHER -> PyNone

\* the mode codes tried: the enumerated ones and one that is not
CsvCodesTried == {"CSV_ADD", "CSV_REPL", "CSV_KEY", "CSV_KEYADD", "CSV_REPLNAMES", "CSV_NONE"}
CduCodesTried == {"CDU_ADD", "CDU_REPL", "CDU_KEY", "CDU_KEYADD", "CDU_NONE"}

\* try: <routine>(code, ...) except Exception as err: raise UnexpectedResult(err)
\* reports is what the engine does with the call
TryEngineFile(routine, code, reports) ==
    LET calls == <<TblCall(routine, code)>>
    IN IF reports # NoEngineError
       THEN RaiseUnexpectedResult(<<PyExc(reports)>>, calls)
       ELSE Return(PyNone, calls)

\* writeToCSV with the engine's failure swallowed
writeToCSV_Swallows(csv_code, reports) ==
    Return(PyNone, <<TblCall("WriteCSV", csv_codes_get(csv_code))>>)

\* RastrTable.writeToCSV (writeCSV)
writeToCSV(csv_code, reports) == TryEngineFile("WriteCSV", csv_codes_get(csv_code), reports)

\* RastrTable.readCSV
readCSV(csv_code, reports) == TryEngineFile("ReadCSV", csv_codes_get(csv_code), reports)

\* RastrTable.writeToCDU (writeCDU)
writeToCDU(cdu_code, reports) == TryEngineFile("WriteCDU", cdu_codes_get(cdu_code), reports)

\* RastrTable.readCDU
readCDU(cdu_code, reports) == TryEngineFile("ReadCDU", cdu_codes_get(cdu_code), reports)

\* the file after a write the engine served: it holds the table's rows
EngineWritten(dialect, out) ==
    IF out.raised = NoError THEN [dialect |-> dialect, records |-> Len(rows)] ELSE file

\* the tables a file of up to MaxFileRecords records can hold
FileTables == {tbl \in AllTables : Len(tbl) <= MaxFileRecords}

\* the tables a read the engine served can leave: the content depends on
\* the file and the mode; a failed read leaves the table as it was
EngineReadTables(out) == IF out.raised = NoError THEN FileTables ELSE {rows}

FileCall(op, code, reports, out) ==
    [op |-> op, arg |-> [code |-> code, reports |-> reports], out |-> out,
     before |-> rows, before_sel |-> sel]

WriteToCSV ==
    \E csv_code \in CsvCodesTried, reports \in EngineReports :
        LET call == FileCall("writeToCSV", csv_code, reports, writeToCSV(csv_code, reports))
        IN /\ tbl_last = NoTableCall
           /\ load_last = NoLoadCall
           /\ tbl_last' = call
           /\ file' = EngineWritten("csv", call.out)
           /\ UNCHANGED <<debug, it_cut, rowIterVars, rows, sel, calcVars, cellVars, propVars, iterVars,
                          load_last, tables, look_last>>

ReadCSV ==
    \E csv_code \in CsvCodesTried, reports \in EngineReports :
        LET call == FileCall("readCSV", csv_code, reports, readCSV(csv_code, reports))
        IN /\ tbl_last = NoTableCall
           /\ load_last = NoLoadCall
           /\ tbl_last' = call
           /\ rows' \in EngineReadTables(call.out)
           /\ it_clean' = FALSE
           /\ it_cut' = it_pc
           /\ UNCHANGED <<debug, rowIterVars, sel, calcVars, cellVars, propVars, it_pc, it_row, it_out,
                          edits, rastrVars>>

WriteToCDU ==
    \E cdu_code \in CduCodesTried, reports \in EngineReports :
        LET call == FileCall("writeToCDU", cdu_code, reports, writeToCDU(cdu_code, reports))
        IN /\ tbl_last = NoTableCall
           /\ load_last = NoLoadCall
           /\ tbl_last' = call
           /\ file' = EngineWritten("cdu", call.out)
           /\ UNCHANGED <<debug, it_cut, rowIterVars, rows, sel, calcVars, cellVars, propVars, iterVars,
                          load_last, tables, look_last>>

ReadCDU ==
    \E cdu_code \in CduCodesTried, reports \in EngineReports :
        LET call == FileCall("readCDU", cdu_code, reports, readCDU(cdu_code, reports))
        IN /\ tbl_last = NoTableCall
           /\ load_last = NoLoadCall
           /\ tbl_last' = call
           /\ rows' \in EngineReadTables(call.out)
           /\ it_clean' = FALSE
           /\ it_cut' = it_pc
           /\ UNCHANGED <<debug, rowIterVars, sel, calcVars, cellVars, propVars, it_pc, it_row, it_out,
                          edits, rastrVars>>

-----------------------------------------------------------------------------
(* Rastr: load and loadOldFile *)

\* the path of the file loaded
FilePath == PyStr("file.rg2")

\* Rastr.getTemplate(file): the template found in the user's template
\* directory for the extension of the file
getTemplate(filepath) == PyStr("SHABLON template for " \o filepath.s)

\* the templates passed by the caller: none, or an explicit one
TemplatesTried == {PyNone, PyStr("explicit.rg2")}

\* the codes tried: the enumerated ones and one that is not
RgCodesTried == {"RG_ADD", "RG_REPL", "RG_KEY", "RG_ADDKEY", "RG_NONE"}
ModesTried == {"rge", "cxe", "none"}

\* `match rg_code:` of load; None stands for `case _`
rg_code_match(rg_code) ==
    CASE rg_code = "RG_ADD" -> PyInt(0)
      [] rg_code = "RG_REPL" -> PyInt(1)
      [] rg_code = "RG_KEY" -> PyInt(2)
      [] rg_code = "RG_ADDKEY" -> PyInt(3)
      [] OTHER -> PyNone

\* `match mode:` of loadOldFile; None stands for `case _`
mode_match(mode) ==
    CASE mode = "rge" -> PyInt(0)
      [] mode = "cxe" -> PyInt(1)
      [] OTHER -> PyNone

\* a call of an engine routine outside any try: what the engine raises
\* reaches the caller as it is
CallEngine(routine, args, reports) ==
    LET calls == <<TblCall(routine, args)>>
    IN IF reports # NoEngineError
       THEN [raised |-> "EngineError", engine |-> calls, ret |-> PyNone,
             message |-> PyExc(reports)]
       ELSE Return(PyNone, calls)

\* Rastr.load
load(rg_code, template, use_template, reports) ==
    LET code == rg_code_match(rg_code)
    IN IF code = PyNone
       THEN RaiseUnexpectedResult(<<PyStr("bad rg_kod")>>, <<>>)
       ELSE IF template = PyNone
       THEN IF use_template
            THEN CallEngine("Load", <<code, FilePath, getTemplate(FilePath)>>, reports)
            ELSE CallEngine("Load", <<code, FilePath>>, reports)
       ELSE CallEngine("Load", <<code, FilePath, template>>, reports)

\* Rastr.loadOldFile
loadOldFile(mode, template, reports) ==
    LET code == mode_match(mode)
    IN IF code = PyNone
       THEN RaiseUnexpectedResult(<<PyStr("bad mode")>>, <<>>)
       ELSE IF template = PyNone
       THEN CallEngine("LoadOldFile", <<code, FilePath, getTemplate(FilePath)>>, reports)
       ELSE CallEngine("LoadOldFile", <<code, FilePath, template>>, reports)

\* The workspace after the engine served a load: a load with a template
\* creates the table structure the template implies when it is not there
\* (here the table "area"); a failed or rejected load leaves the workspace
EngineLoaded(tbls, out) ==
    IF /\ out.raised = NoError
       /\ out.engine # <<>>
       /\ Len(out.engine[1].arg) = 3
       /\ \A k \in DOMAIN tbls : tbls[k] # "area"
    THEN Append(tbls, "area")
    ELSE tbls

LoadCall(op, code, template, use_template, out) ==
    [op |-> op, code |-> code, template |-> template, use_template |-> use_template,
     out |-> out, before |-> tables]

Load ==
    \E rg_code \in RgCodesTried, template \in TemplatesTried,
       use_template \in BOOLEAN, reports \in EngineReports :
        LET call == LoadCall("load", rg_code, template, use_template,
                             load(rg_code, template, use_template, reports))
        IN /\ tbl_last = NoTableCall
           /\ load_last = NoLoadCall
           /\ load_last' = call
           /\ tables' = EngineLoaded(tables, call.out)
           /\ UNCHANGED <<debug, it_cut, rowIterVars, rows, calcVars, cellVars, propVars, selVars, iterVars,
                          look_last, file>>

LoadOldFile ==
    \E mode \in ModesTried, template \in TemplatesTried, reports \in EngineReports :
        LET call == LoadCall("loadOldFile", mode, template, TRUE,
                             loadOldFile(mode, template, reports))
        IN /\ tbl_last = NoTableCall
           /\ load_last = NoLoadCall
           /\ load_last' = call
           /\ tables' = EngineLoaded(tables, call.out)
           /\ UNCHANGED <<debug, it_cut, rowIterVars, rows, calcVars, cellVars, propVars, selVars, iterVars,
                          look_last, file>>

\* the caller takes the outcome of the call
LoadReturned ==
    /\ load_last # NoLoadCall
    /\ load_last' = NoLoadCall
    /\ UNCHANGED <<debug, it_cut, rowIterVars, rows, calcVars, cellVars, propVars, selVars, iterVars,
                   tables, look_last, file>>

\* a workspace with a table of some content and no file written yet
InitFile ==
    /\ debug \in BOOLEAN
    /\ calc_last = NoCall
    /\ rows \in FileTables
    /\ col_last = NoCellCall
    /\ props = <<>>
    /\ prop_last = NoPropCall
    /\ prop_writes = 0
    /\ sel = EmptySel
    /\ tbl_last = NoTableCall
    /\ it_pc = "none" /\ it_row = PyNone /\ it_out = <<>> /\ it_clean = TRUE
    /\ edits = 0
    /\ load_last = NoLoadCall
    /\ tables = TablesAtStart
    /\ look_last = NoLookCall
    /\ file = NoFile
    /\ it_cut = "none"
    /\ ri_made = FALSE /\ ri_idx = -1 /\ ri_out = <<>>

NextFile ==
    \/ WriteToCSV \/ ReadCSV \/ WriteToCDU \/ ReadCDU \/ TableReturned
    \/ Load \/ LoadOldFile \/ LoadReturned

SpecFile == InitFile /\ [][NextFile]_vars

-----------------------------------------------------------------------------
(* Claims about files and loading *)

FileOps == {"writeToCSV", "readCSV", "writeToCDU", "readCDU"}
CsvOps == {"writeToCSV", "readCSV"}

\* the enumerated codes and the numbers the engine knows them by
RgCodes == [RG_ADD |-> 0, RG_REPL |-> 1, RG_KEY |-> 2, RG_ADDKEY |-> 3]
OldFileModes == [rge |-> 0, cxe |-> 1]
CsvCodes == [CSV_ADD |-> 0, CSV_REPL |-> 1, CSV_KEY |-> 2, CSV_KEYADD |-> 3, CSV_REPLNAMES |-> 5]
CduCodes == [CDU_ADD |-> 0, CDU_REPL |-> 1, CDU_KEY |-> 2, CDU_KEYADD |-> 3]

\* C16: whenever the engine fails during writeCSV, readCSV, writeCDU or
\* readCDU the caller gets exactly one UnexpectedResult whose message is
\* the engine failure's cause, never the default text, another kind of
\* error or a silent success, and the engine call is not retried.
C16_EngineFailureWrappedOnce ==
    (tbl_last.op \in FileOps /\ tbl_last.arg.reports # NoEngineError) =>
        /\ tbl_last.out.raised = "UnexpectedResult"
        /\ tbl_last.out.message = PyExc(tbl_last.arg.reports)
        /\ UnexpectedResult_str(tbl_last.out.message) # Return(DefaultText, <<>>)
        /\ Len(tbl_last.out.engine) = 1
        /\ rows = tbl_last.before

\* the engine failed on a bad record while readCDU ran with a known code
C16_Witness ==
    /\ tbl_last.op = "readCDU"
    /\ tbl_last.arg.code = "CDU_KEY"
    /\ tbl_last.arg.reports = "bad record"
    /\ tbl_last.out.raised = "UnexpectedResult"
    /\ tbl_last.out.message.cause = "bad record"

\* a call with a code of the enumeration codes reached the engine with the
\* code's number; one with another code raised and reached nothing
CodeChecked(code, codes, out, routine_arg) ==
    IF code \in DOMAIN codes
    THEN out.engine # <<>> /\ routine_arg = PyInt(codes[code])
    ELSE out.raised # NoError /\ out.engine = <<>>

\* C17: load, loadOldFile, writeCSV, readCSV, writeCDU and readCDU reject
\* a code outside their enumerated set locally: an error is raised, the
\* engine is not called, the workspace and the file stay as they were.
\* A recognized code reaches the engine as its fixed number.
C17_BadCodeRejectedLocally ==
    /\ load_last.op = "load" =>
        /\ CodeChecked(load_last.code, RgCodes, load_last.out,
                       IF load_last.out.engine = <<>> THEN PyNone
                       ELSE load_last.out.engine[1].arg[1])
        /\ load_last.code \notin DOMAIN RgCodes => tables = load_last.before
    /\ load_last.op = "loadOldFile" =>
        /\ CodeChecked(load_last.code, OldFileModes, load_last.out,
                       IF load_last.out.engine = <<>> THEN PyNone
                       ELSE load_last.out.engine[1].arg[1])
        /\ load_last.code \notin DOMAIN OldFileModes => tables = load_last.before
    /\ tbl_last.op \in FileOps =>
        LET codes == IF tbl_last.op \in CsvOps THEN CsvCodes ELSE CduCodes
        IN /\ CodeChecked(tbl_last.arg.code, codes, tbl_last.out,
                          IF tbl_last.out.engine = <<>> THEN PyNone
                          ELSE tbl_last.out.engine[1].arg)
           /\ tbl_last.arg.code \notin DOMAIN codes => rows = tbl_last.before

\* C20: load uses a template if and only if use_template is true: without
\* it the engine's Load gets no template whatever the template argument
\* is; with it Load gets the explicit template when one is given and the
\* automatically resolved one otherwise.
C20_TemplateIffUseTemplate ==
    (load_last.op = "load" /\ load_last.out.engine # <<>>) =>
        LET args == load_last.out.engine[1].arg
        IN IF ~ load_last.use_template THEN Len(args) = 2
           ELSE IF load_last.template # PyNone
           THEN Len(args) = 3 /\ args[3] = load_last.template
           ELSE Len(args) = 3 /\ args[3] = getTemplate(FilePath)

-----------------------------------------------------------------------------
(* RastrTables: the collection of tables, and lookups by name or index *)

\* a list, which is neither a str nor an int
PyList == [t |-> "list"]

\* a table object of the collection: the table at position k of the engine's
\* collection
PyTable(k) == [t |-> "table", k |-> k]

\* The engine's collection (Tables.Item, Tables.Remove) finds a table by
\* its name, or by its position counted from 0; the result is the place in
\* tbls, 0 when there is no such table.  A Python bool reaches the engine
\* as a COM boolean, whose number is -1 for True and 0 for False.
EngineTablesFind(tbls, key) ==
    CASE key.t = "str" ->
            IF \E k \in DOMAIN tbls : tbls[k] = key.s
            THEN CHOOSE k \in DOMAIN tbls : tbls[k] = key.s
            ELSE 0
      [] key.t = "int" -> IF key.n + 1 \in DOMAIN tbls THEN key.n + 1 ELSE 0
      [] key.t = "bool" -> IF (~ key.b) /\ 1 \in DOMAIN tbls THEN 1 ELSE 0
      [] OTHER -> 0

\* self._tables.Item(key)
EngineTablesItem(key) ==
    LET k == EngineTablesFind(tables, key)
        calls == <<TblCall("Item", key)>>
    IN IF k = 0 THEN Raise("EngineError", calls) ELSE Return(PyTable(k), calls)

\* self._tables.Remove(key)
EngineTablesRemove(key) ==
    LET k == EngineTablesFind(tables, key)
        calls == <<TblCall("Remove", key)>>
    IN IF k = 0 THEN Raise("EngineError", calls) ELSE Return(PyNone, calls)

\* self._tables.Add(name)
EngineTablesAdd(name) ==
    LET calls == <<TblCall("Add", name)>>
    IN IF EngineTablesFind(tables, name) # 0
       THEN Raise("EngineError", calls)
       ELSE Return(PyTable(Len(tables) + 1), calls)

\* the collection after the engine has served the calls of one operation
RECURSIVE EngineTablesApply(_, _)
EngineTablesApply(tbls, calls) ==
    IF calls = <<>> THEN tbls
    ELSE LET call == Head(calls)
             k == EngineTablesFind(tbls, call.arg)
             done == CASE call.routine = "Remove" /\ k # 0 ->
                            SubSeq(tbls, 1, k - 1) \o SubSeq(tbls, k + 1, Len(tbls))
                       [] call.routine = "Add" /\ k = 0 -> Append(tbls, call.arg.s)
                       [] OTHER -> tbls
         IN EngineTablesApply(done, Tail(calls))

\* RastrTables.getTableByIndex, RastrTables.getTableByName
getTableByIndex(index) == EngineTablesItem(index)
getTableByName(name) == EngineTablesItem(name)

\* RastrTables.removeByIndex, RastrTables.removeByName: the engine's value
\* is dropped
removeByIndex(index) ==
    LET out == EngineTablesRemove(index)
    IN IF out.raised # NoError THEN out ELSE Return(PyNone, out.engine)
removeByName(name) ==
    LET out == EngineTablesRemove(name)
    IN IF out.raised # NoError THEN out ELSE Return(PyNone, out.engine)

\* RastrTables.addTable (add)
addTable(name) == EngineTablesAdd(name)

\* RastrTables.table (t, get)
table(item) ==
    IF IsInstanceStr(item) THEN getTableByName(item)
    ELSE IF IsInstanceInt(item) THEN getTableByIndex(item)
    ELSE RaiseUnexpectedResult(<<PyStr("bad table name or index")>>, <<>>)

\* RastrTables.removeTable (remove)
removeTable(item) ==
    IF IsInstanceStr(item) THEN removeByName(item)
    ELSE IF IsInstanceInt(item) THEN removeByIndex(item)
    ELSE RaiseUnexpectedResult(<<PyStr("bad table name or index")>>, <<>>)

\* the names of tables added
TableNamesTried == {"node", "vetv", "area"}

\* the arguments of a lookup: names and positions, those of a table or a
\* column and others, and values of other types
LookItemsTried ==
    ItemsTried \cup {PyStr(n) : n \in TableNamesTried}
        \cup {PyBool(TRUE), PyBool(FALSE), PyList}

LookCall(op, item, out) == [op |-> op, item |-> item, out |-> out, before |-> tables]

Column ==
    \E item \in LookItemsTried :
        /\ look_last = NoLookCall
        /\ look_last' = LookCall("column", item, column(item))
        /\ UNCHANGED <<debug, it_cut, rowIterVars, rows, calcVars, cellVars, propVars, selVars, iterVars,
                       load_last, tables, file>>

Table ==
    \E item \in LookItemsTried :
        /\ look_last = NoLookCall
        /\ look_last' = LookCall("table", item, table(item))
        /\ UNCHANGED <<debug, it_cut, rowIterVars, rows, calcVars, cellVars, propVars, selVars, iterVars,
                       load_last, tables, file>>

RemoveTable ==
    \E item \in LookItemsTried :
        LET call == LookCall("removeTable", item, removeTable(item))
        IN /\ look_last = NoLookCall
           /\ look_last' = call
           /\ tables' = EngineTablesApply(tables, call.out.engine)
           /\ UNCHANGED <<debug, it_cut, rowIterVars, rows, calcVars, cellVars, propVars, selVars, iterVars,
                          load_last, file>>

AddTable ==
    \E name \in TableNamesTried :
        LET call == LookCall("addTable", PyStr(name), addTable(PyStr(name)))
        IN /\ look_last = NoLookCall
           /\ look_last' = call
           /\ tables' = EngineTablesApply(tables, call.out.engine)
           /\ UNCHANGED <<debug, it_cut, rowIterVars, rows, calcVars, cellVars, propVars, selVars, iterVars,
                          load_last, file>>

\* the caller takes the outcome of the call
LookReturned ==
    /\ look_last # NoLookCall
    /\ look_last' = NoLookCall
    /\ UNCHANGED <<debug, it_cut, rowIterVars, rows, calcVars, cellVars, propVars, selVars, iterVars,
                   load_last, tables, file>>

InitLook == InitCalc

NextLook == Column \/ Table \/ RemoveTable \/ AddTable \/ LookReturned

SpecLook == InitLook /\ [][NextLook]_vars

-----------------------------------------------------------------------------
(* Claims about lookups and error kinds *)

\* C18: column, table and removeTable dispatch on the type of the
\* argument: a str is resolved by name, an int by position, and an
\* argument of any other type (boolean, float, none, list) fails with an
\* error without reaching the engine's collection.
C18_LookupDispatchesOnType ==
    look_last.op \in {"column", "table", "removeTable"} =>
        IF look_last.item.t \in {"str", "int"}
        THEN /\ Len(look_last.out.engine) = 1
             /\ look_last.out.engine[1].arg = look_last.item
        ELSE /\ look_last.out.raised # NoError
             /\ look_last.out.engine = <<>>
             /\ tables = look_last.before

\* C19: UnexpectedResult is raised only to wrap an exception of the engine
\* during a file read or write; a validation failure found locally (bad
\* enumerated code, wrong type for a lookup, malformed parameter string,
\* bad value kind or property kind) has another error kind.
C19_UnexpectedResultOnlyWraps ==
    /\ tbl_last.out.raised = "UnexpectedResult" =>
        /\ tbl_last.op \in FileOps
        /\ tbl_last.arg.reports # NoEngineError
    /\ load_last.out.raised # "UnexpectedResult"
    /\ calc_last.out.raised # "UnexpectedResult"
    /\ look_last.out.raised # "UnexpectedResult"
    /\ col_last.out.raised # "UnexpectedResult"
    /\ prop_last.out.raised # "UnexpectedResult"

-----------------------------------------------------------------------------
(* Claims about iteration with row edits in between *)

\* the yields of the generator that were made before the row edit held in
\* tbl_last, at or after the row id the edit was made at: a yield records
\* the row's id and tag, and from that id on the edit gave every id
\* another row
YieldsBeforeEdit ==
    {k \in DOMAIN it_out :
        /\ it_out[k].id >= tbl_last.arg.n
        /\ it_out[k].id + 1 \in DOMAIN tbl_last.before
        /\ it_out[k].uid = tbl_last.before[it_out[k].id + 1].uid}

\* the row id the generator was suspended at when the edit was made
ResumePoint ==
    LET ids == {it_out[k].id : k \in YieldsBeforeEdit}
    IN CHOOSE r \in ids : \A q \in ids : q <= r

\* how often the generator has yielded the row with tag u
TimesYielded(u) == Cardinality({k \in DOMAIN it_out : it_out[k].uid = u})

\* an iteration has ended with exactly one deleteRow or insertRow made in
\* between, at or before the row id the generator was suspended at
EditedWhileSuspended(op) ==
    /\ it_pc = "done"
    /\ it_cut = "suspended"
    /\ edits = 1
    /\ tbl_last.op = op
    /\ YieldsBeforeEdit # {}

\* C21: iteration over the selection is not safe when deleteRow or
\* insertRow comes between two steps, because the generator resumes from a
\* row id whose meaning the edit has shifted: after deleteRow at or before
\* the resume point the selected row that followed the resume point is
\* never yielded, and after insertRow at or before it the row yielded last
\* is yielded a second time.
C21_EditBetweenStepsShiftsRows ==
    /\ EditedWhileSuspended("deleteRow") =>
        LET next == ResumePoint + 2
        IN (next \in DOMAIN tbl_last.before /\ EngineMatches(sel, tbl_last.before[next])) =>
            /\ \E k \in DOMAIN rows : rows[k] = tbl_last.before[next]
            /\ TimesYielded(tbl_last.before[next].uid) = 0
    /\ EditedWhileSuspended("insertRow") =>
        LET last == tbl_last.before[ResumePoint + 1]
        IN /\ \E k \in DOMAIN rows : rows[k] = last
           /\ TimesYielded(last.uid) = 2

\* an iteration has ended that missed a row which was in the selection
\* before and after a deleteRow made while the generator was suspended
C21_Witness ==
    /\ EditedWhileSuspended("deleteRow")
    /\ ResumePoint + 2 \in DOMAIN tbl_last.before
    /\ EngineMatches(sel, tbl_last.before[ResumePoint + 2])
    /\ \E k \in DOMAIN rows : rows[k] = tbl_last.before[ResumePoint + 2]
    /\ TimesYielded(tbl_last.before[ResumePoint + 2].uid) = 0
    /\ Len(it_out) > 0

-----------------------------------------------------------------------------
(* The iterator made by iterating a table object *)

\* RowIterator.__init__(table, start=-1): table is the engine's table, the
\* one rows and sel are the state of
RowIterator_init(start) == [idx |-> start]

\* RastrTable.__iter__(): RowIterator(self._table), start left at -1
RastrTable_iter == RowIterator_init(-1)

\* RowIterator.__next__(): self.idx takes what FindNextSel(self.idx) gives,
\* the -1 of no further row included; then that idx is returned, or
\* StopIteration is raised
RowIterator_next(idx) ==
    LET found == EngineFindNextSel(rows, sel, idx)
        calls == <<TblCall("FindNextSel", PyInt(idx))>>
    IN [idx |-> found,
        out |-> IF found # -1 THEN Return(PyInt(found), calls)
                ELSE Raise("StopIteration", calls)]

\* the calls of next() that ended in StopIteration
Exhaustions == {k \in DOMAIN ri_out : ri_out[k].raised = "StopIteration"}

\* iter(table): a fresh RowIterator replaces the one that was driven
\* to its end often enough
Iter ==
    /\ ~ ri_made \/ Cardinality(Exhaustions) = MaxExhaustions
    /\ ri_made' = TRUE
    /\ ri_idx' = RastrTable_iter.idx
    /\ ri_out' = <<>>
    /\ UNCHANGED <<debug, it_cut, rows, calcVars, rastrVars, cellVars, propVars, selVars, iterVars>>

\* next() on the RowIterator
RowNext ==
    /\ ri_made
    /\ Cardinality(Exhaustions) < MaxExhaustions
    /\ LET step == RowIterator_next(ri_idx)
       IN /\ ri_idx' = step.idx
          /\ ri_out' = Append(ri_out, step.out)
    /\ UNCHANGED <<debug, it_cut, ri_made, rows, calcVars, rastrVars, cellVars, propVars, selVars, iterVars>>

InitRowIter == InitSel

\* the table is iterated both ways, by a RowIterator and by iterRows
NextRowIter == Iter \/ RowNext \/ IterRows \/ IterNext

SpecRowIter == InitRowIter /\ [][NextRowIter]_vars

-----------------------------------------------------------------------------
(* Claims about the RowIterator *)

\* the first call of next() that ended in StopIteration
FirstExhaustion == CHOOSE k \in Exhaustions : \A q \in Exhaustions : k <= q

\* the row ids the RowIterator returned before it first raised StopIteration
FirstPassIds == [k \in 1..(FirstExhaustion - 1) |-> ri_out[k].ret.n]

\* C22: the iterator made by iterating a table object yields the same
\* sequence of row ids as iterRows does and is not restartable: once a
\* next() on it has raised StopIteration, every later next() on it raises
\* StopIteration too, and the first selected row is not returned again.
C22_RowIteratorNotRestartable ==
    /\ (Exhaustions # {} /\ it_pc = "done") => FirstPassIds = YieldedIds
    /\ \A k \in Exhaustions : \A l \in DOMAIN ri_out :
           l > k => ri_out[l].raised = "StopIteration"

=============================================================================
